---- MODULE Spec2Model ----
(***************************************************************************)
(* Chat session controller of ai-task-assistant: the useChat hook          *)
(* (frontend/src/hooks/use-chat.ts), the ChatAPIClient transport           *)
(* (lib/api-client) and the Chat / ChatInput / ChatWelcome components      *)
(* that drive them.                                                        *)
(*                                                                         *)
(* Spec    : the hook driven directly (sendMessage and clearChat may be    *)
(*           called at any time, from any render's closure).               *)
(* SpecUI  : the hook driven through the rendered components only.         *)
(* SpecUIFair : SpecUI with the timers' callbacks scheduled.                *)
(* SpecApi : the transport client: sendMessage through the hook, and       *)
(*           ingest, clearCache and healthCheck called directly.           *)
(*                                                                         *)
(* Message timestamps (new Date()) are not part of the state: no branch    *)
(* of the code reads them.                                                 *)
(***************************************************************************)
EXTENDS Integers, Sequences, FiniteSets, TLC

VARIABLES
  messages,   \* useState<Message[]>            (use-chat.ts:6)
  isLoading,  \* useState(false)                (use-chat.ts:7)
  error,      \* useState<string | null>(null)  (use-chat.ts:8)
  view,       \* the values captured by the closures of the last render
  calls,      \* one record per invocation of useChat.sendMessage
  nextId,     \* source of crypto.randomUUID()
  input,      \* ChatInput's useState("")       (chat-input.tsx:11)
  api         \* the current direct invocation of ingest / clearCache / healthCheck

vars == <<messages, isLoading, error, view, calls, nextId, input, api>>

-----------------------------------------------------------------------------
(* Bounds *)

MaxCalls == 2       \* invocations of sendMessage in one behaviour
MaxPrompt == 1      \* ChatWelcome prompts that are clicked: the first MaxPrompt
MaxApiSends == 1    \* invocations of sendMessage next to the direct operations
MaxBlank == 2       \* length of the whitespace-only texts that are told apart

(* Program constants *)

TimeoutMs == 30000  \* setTimeout(..., 30000)
OkStatus == 200

-----------------------------------------------------------------------------
(* Optional values: undefined / null is the empty sequence *)

None == <<>>
Some(x) == <<x>>

(* Texts typed into the textarea are sequences of characters *)

Whitespace == {" ", "\n", "\t"}

RECURSIVE Str(_)
Str(cs) == IF cs = <<>> THEN "" ELSE Head(cs) \o Str(Tail(cs))

RECURSIVE TrimStart(_)
TrimStart(cs) ==
  IF cs # <<>> /\ Head(cs) \in Whitespace THEN TrimStart(Tail(cs)) ELSE cs

RECURSIVE TrimEnd(_)
TrimEnd(cs) ==
  IF cs # <<>> /\ cs[Len(cs)] \in Whitespace
    THEN TrimEnd(SubSeq(cs, 1, Len(cs) - 1))
    ELSE cs

trim(cs) == TrimEnd(TrimStart(cs))

InputTexts == { <<>>, <<" ">>, <<" ", "o", "k", " ">> }

CallTexts == {"hello"}

examplePrompts ==
  << [text |-> "What are my urgent tasks?", category |-> "Jira"],
     [text |-> "Show me unread emails from today", category |-> "Gmail"],
     [text |-> "What meetings do I have this week?", category |-> "Calendar"],
     [text |-> "Which tasks are due this week?", category |-> "Deadlines"],
     [text |-> "Search for issues assigned to me", category |-> "Search"],
     [text |-> "Remind me to check KAN-1 tomorrow at 9am", category |-> "Reminder"] >>

-----------------------------------------------------------------------------
(* JavaScript values that travel through the transport *)

JStr(s) == [t |-> "string", s |-> s]
JArr(items) == [t |-> "array", items |-> items]
JObj(fields) == [t |-> "object", fields |-> fields]
JNull == [t |-> "null"]

\* String(v), as new Error(v) applies it to its argument
RECURSIVE JoinItems(_)
RECURSIVE ToStr(_)
ToStr(v) ==
  CASE v.t = "string" -> v.s
    [] v.t = "array"  -> JoinItems(v.items)
    [] v.t = "object" -> "[object Object]"
    [] v.t = "null"   -> "null"
JoinItems(items) ==
  IF items = <<>> THEN ""
  ELSE IF Len(items) = 1 THEN ToStr(items[1])
  ELSE ToStr(items[1]) \o "," \o JoinItems(Tail(items))

\* the truthiness `||` tests
Truthy(v) ==
  CASE v.t = "string" -> v.s # ""
    [] v.t = "array"  -> TRUE
    [] v.t = "object" -> TRUE
    [] v.t = "null"   -> FALSE

\* thrown values
MkError(cls, name, message) == [cls |-> cls, name |-> name, message |-> message]
instanceofError(err) == err.cls \in {"Error", "TypeError", "SyntaxError", "DOMException"}

AbortError == MkError("DOMException", "AbortError", "The user aborted a request.")
FetchFailed == MkError("TypeError", "TypeError", "Failed to fetch")
JsonSyntaxError == MkError("SyntaxError", "SyntaxError", "Unexpected token < in JSON at position 0")
NullRead(prop) ==
  MkError("TypeError", "TypeError",
          "Cannot read properties of null (reading '" \o prop \o "')")

\* bodies a backend sends with a non-success status, once parsed
ErrBodies ==
  { [t |-> "object", detail |-> Some(JStr("Rate limit exceeded"))],
    [t |-> "object", detail |-> Some(JStr(""))],
    [t |-> "object", detail |-> None],
    [t |-> "object", detail |-> Some(JArr(<<JObj("loc,msg,type")>>))],
    JNull }

ErrStatuses == {500}

\* bodies a backend sends with a success status, once parsed
Payloads ==
  { [t |-> "object", response |-> "hi", sources |-> <<>>, cached |-> FALSE,
     timestamp |-> "2024-01-01T00:00:00Z"],
    [t |-> "object", response |-> "You have 3 urgent tasks",
     sources |-> << [id |-> "KAN-1", source |-> "jira", title |-> "Fix login"] >>,
     cached |-> TRUE, timestamp |-> "2024-01-02T09:30:00Z"],
    JNull }

\* the backend answers Spec draws from: one of each kind
DirectErrBodies == { [t |-> "object", detail |-> Some(JStr("Rate limit exceeded"))] }

DirectPayloads ==
  { [t |-> "object", response |-> "hi", sources |-> <<>>, cached |-> FALSE,
     timestamp |-> "2024-01-01T00:00:00Z"],
    JNull }

-----------------------------------------------------------------------------
(* Messages *)

userMessage(id, content) ==
  [id |-> id, role |-> "user", type |-> "text", content |-> content,
   sources |-> None, cached |-> None]

\* a reply that forgets the payload's cached flag
assistantMessage_NoCached(id, result) ==
  [id |-> id, role |-> "assistant", type |-> "text", content |-> result.response,
   sources |-> Some(result.sources), cached |-> None]

assistantMessage(id, result) ==
  [id |-> id, role |-> "assistant", type |-> "text", content |-> result.response,
   sources |-> Some(result.sources), cached |-> Some(result.cached)]

failureMessage(id, errorMsg) ==
  [id |-> id, role |-> "assistant", type |-> "text",
   content |-> "Something went wrong: " \o errorMsg,
   sources |-> None, cached |-> None]

\* messages.map(m => ({ role: m.role, content: m.content }))
chatHistory(msgs) ==
  [i \in 1..Len(msgs) |-> [role |-> msgs[i].role, content |-> msgs[i].content]]

snapshot(m, l, e) == [messages |-> m, isLoading |-> l, error |-> e]

\* no direct invocation of the transport client has been made
NoInvocation == [op |-> "none", pc |-> "idle", status |-> 0, outcome |-> None]

-----------------------------------------------------------------------------
Init ==
  /\ messages = <<>>
  /\ isLoading = FALSE
  /\ error = None
  /\ view = snapshot(<<>>, FALSE, None)
  /\ calls = <<>>
  /\ nextId = 1
  /\ input = <<>>
  /\ api = NoInvocation

InFlight == {k \in 1..Len(calls) : calls[k].pc # "done"}

-----------------------------------------------------------------------------
(* useChat.sendMessage up to its await, with ChatAPIClient.sendMessage up   *)
(* to its await of fetch.  `messages` on line 25 is the render's value.     *)

\* a sendMessage that issues the request without the optimistic append
sendMessage_NoAppend(content) ==
  /\ Len(calls) < MaxCalls
  /\ messages' = messages
  /\ isLoading' = TRUE
  /\ error' = None
  /\ nextId' = nextId + 1
  /\ calls' = Append(calls,
       [ content   |-> content,
         userId    |-> nextId,
         request   |-> [message |-> content,
                        chat_history |-> chatHistory(view.messages)],
         pc        |-> "fetch",
         fetches   |-> 1,
         status    |-> 0,
         errBody   |-> None,
         timer     |-> [state |-> "armed", delay |-> TimeoutMs],
         aborted   |-> FALSE,
         outcome   |-> None,
         replyId   |-> 0,
         promise   |-> "pending" ])

\* a sendMessage that forgets setError(null)
sendMessage_KeepsError(content) ==
  /\ Len(calls) < MaxCalls
  /\ messages' = Append(messages, userMessage(nextId, content))
  /\ isLoading' = TRUE
  /\ error' = error
  /\ nextId' = nextId + 1
  /\ calls' = Append(calls,
       [ content   |-> content,
         userId    |-> nextId,
         request   |-> [message |-> content,
                        chat_history |-> chatHistory(view.messages)],
         pc        |-> "fetch",
         fetches   |-> 1,
         status    |-> 0,
         errBody   |-> None,
         timer     |-> [state |-> "armed", delay |-> TimeoutMs],
         aborted   |-> FALSE,
         outcome   |-> None,
         replyId   |-> 0,
         promise   |-> "pending" ])

sendMessage(content) ==
  /\ Len(calls) < MaxCalls
  /\ messages' = Append(messages, userMessage(nextId, content))
  /\ isLoading' = TRUE
  /\ error' = None
  /\ nextId' = nextId + 1
  /\ calls' = Append(calls,
       [ content   |-> content,
         userId    |-> nextId,
         request   |-> [message |-> content,
                        chat_history |-> chatHistory(view.messages)],
         pc        |-> "fetch",
         fetches   |-> 1,
         status    |-> 0,
         errBody   |-> None,
         timer     |-> [state |-> "armed", delay |-> TimeoutMs],
         aborted   |-> FALSE,
         outcome   |-> None,
         replyId   |-> 0,
         promise   |-> "pending" ])

\* a clearChat that forgets setError(null)
clearChat_KeepsError ==
  /\ messages' = <<>>
  /\ UNCHANGED <<error, isLoading, calls, nextId>>

\* a clearChat that also ends the pending state
clearChat_ResetsLoading ==
  /\ messages' = <<>>
  /\ error' = None
  /\ isLoading' = FALSE
  /\ UNCHANGED <<calls, nextId>>

\* useChat.clearChat
clearChat ==
  /\ messages' = <<>>
  /\ error' = None
  /\ UNCHANGED <<isLoading, calls, nextId>>

-----------------------------------------------------------------------------
(* Continuations of useChat.sendMessage after the await *)

\* a catch block that reports every failure with the generic text
hookCatch_GenericText(k, err, tstate) ==
  LET errorMsg == "An error occurred" IN
  /\ error' = Some(errorMsg)
  /\ messages' = Append(messages, failureMessage(nextId, errorMsg))
  /\ isLoading' = FALSE
  /\ nextId' = nextId + 1
  /\ calls' = [calls EXCEPT ![k] =
       [tstate EXCEPT !.pc = "done", !.replyId = nextId,
                       !.promise = "fulfilled"]]

\* a catch block that takes the optimistic user message back
hookCatch_Rollback(k, err, tstate) ==
  LET errorMsg == IF instanceofError(err) THEN err.message ELSE "An error occurred"
      kept(m) == m.id # tstate.userId
  IN
  /\ error' = Some(errorMsg)
  /\ messages' = Append(SelectSeq(messages, kept), failureMessage(nextId, errorMsg))
  /\ isLoading' = FALSE
  /\ nextId' = nextId + 1
  /\ calls' = [calls EXCEPT ![k] =
       [tstate EXCEPT !.pc = "done", !.replyId = nextId,
                       !.promise = "fulfilled"]]

\* a catch block whose isLoading reset is lost
hookCatch_NoFinally(k, err, tstate) ==
  LET errorMsg == IF instanceofError(err) THEN err.message ELSE "An error occurred" IN
  /\ error' = Some(errorMsg)
  /\ messages' = Append(messages, failureMessage(nextId, errorMsg))
  /\ isLoading' = isLoading
  /\ nextId' = nextId + 1
  /\ calls' = [calls EXCEPT ![k] =
       [tstate EXCEPT !.pc = "done", !.replyId = nextId,
                       !.promise = "fulfilled"]]

\* the catch block and the finally block
hookCatch(k, err, tstate) ==
  LET errorMsg == IF instanceofError(err) THEN err.message ELSE "An error occurred" IN
  /\ error' = Some(errorMsg)
  /\ messages' = Append(messages, failureMessage(nextId, errorMsg))
  /\ isLoading' = FALSE
  /\ nextId' = nextId + 1
  /\ calls' = [calls EXCEPT ![k] =
       [tstate EXCEPT !.pc = "done", !.replyId = nextId,
                       !.promise = "fulfilled"]]

\* lines 31-41 and the finally block; reading result.response of null throws
hookResume(k, result, tstate) ==
  IF result.t = "null"
    THEN hookCatch(k, NullRead("response"), tstate)
    ELSE /\ messages' = Append(messages, assistantMessage(nextId, result))
         /\ isLoading' = FALSE
         /\ nextId' = nextId + 1
         /\ calls' = [calls EXCEPT ![k] =
              [tstate EXCEPT !.pc = "done", !.replyId = nextId,
                       !.promise = "fulfilled"]]
         /\ UNCHANGED error

-----------------------------------------------------------------------------
(* ChatAPIClient.sendMessage after its awaits *)

\* a catch block that rethrows the AbortError as it is
apiThrow_NoTimeoutText(k, err, c) ==
  LET tstate == [c EXCEPT !.timer.state = "cleared",
                          !.outcome = Some([kind |-> "err", error |-> err])]
  IN hookCatch(k, err, tstate)

\* a failure path that leaves without clearTimeout
apiThrow_NoClearTimeout(k, err, c) ==
  LET thrown == IF err.cls = "DOMException" /\ err.name = "AbortError"
                  THEN MkError("Error", "Error", "Request timed out. Please try again.")
                  ELSE err
      tstate == [c EXCEPT !.outcome = Some([kind |-> "err", error |-> thrown])]
  IN hookCatch(k, thrown, tstate)

\* the promise rejects with err: catch (lines 61-65), finally (line 67)
apiThrow(k, err, c) ==
  LET thrown == IF err.cls = "DOMException" /\ err.name = "AbortError"
                  THEN MkError("Error", "Error", "Request timed out. Please try again.")
                  ELSE err
      tstate == [c EXCEPT !.timer.state = "cleared",
                          !.outcome = Some([kind |-> "err", error |-> thrown])]
  IN hookCatch(k, thrown, tstate)

\* a .catch that supplies an empty object
jsonCatch_NoDetail(status) == [t |-> "object", detail |-> None]

\* line 56's .catch(() => ({ detail: `HTTP ${response.status}` }))
jsonCatch(status) ==
  [t |-> "object", detail |-> Some(JStr("HTTP " \o ToString(status)))]

\* line 57: throw new Error(err.detail || `API error: ${response.status}`)
errorFromBody(body, status) ==
  IF body.t = "null"
    THEN NullRead("detail")
    ELSE IF body.detail # None /\ Truthy(body.detail[1])
      THEN MkError("Error", "Error", ToStr(body.detail[1]))
      ELSE MkError("Error", "Error", "API error: " \o ToString(status))

-----------------------------------------------------------------------------
(* Network events *)

\* fetch resolves with a success status: `return response.json()` leaves
\* the try block at once, so the finally block clears the timer here
RespondOk(k) ==
  /\ k \in 1..Len(calls)
  /\ calls[k].pc = "fetch"
  /\ calls' = [calls EXCEPT ![k].pc = "body", ![k].status = OkStatus,
                            ![k].timer.state = "cleared"]
  /\ UNCHANGED <<messages, isLoading, error, view, nextId, input, api>>

\* fetch resolves with a non-success status: await response.json()
RespondError(k, s) ==
  /\ k \in 1..Len(calls)
  /\ calls[k].pc = "fetch"
  /\ calls' = [calls EXCEPT ![k].pc = "errbody", ![k].status = s]
  /\ UNCHANGED <<messages, isLoading, error, view, nextId, input, api>>

\* fetch rejects: connection refused, dropped, DNS
NetworkFail(k) ==
  /\ k \in 1..Len(calls)
  /\ calls[k].pc = "fetch"
  /\ apiThrow(k, FetchFailed, calls[k])
  /\ view' = snapshot(messages', isLoading', error')
  /\ UNCHANGED <<input, api>>

\* the error body arrives and parses
ErrBodyParsed(k, body) ==
  /\ k \in 1..Len(calls)
  /\ calls[k].pc = "errbody"
  /\ apiThrow(k, errorFromBody(body, calls[k].status),
              [calls[k] EXCEPT !.errBody = Some(body)])
  /\ view' = snapshot(messages', isLoading', error')
  /\ UNCHANGED <<input, api>>

\* response.json() rejects while reading the error body (malformed JSON,
\* connection dropped): line 56's .catch supplies the body
ErrBodyFails(k) ==
  /\ k \in 1..Len(calls)
  /\ calls[k].pc = "errbody"
  /\ apiThrow(k, errorFromBody(jsonCatch(calls[k].status), calls[k].status), calls[k])
  /\ view' = snapshot(messages', isLoading', error')
  /\ UNCHANGED <<input, api>>

\* the success body arrives and parses
BodyParsed(k, result) ==
  /\ k \in 1..Len(calls)
  /\ calls[k].pc = "body"
  /\ hookResume(k, result,
                [calls[k] EXCEPT !.outcome = Some([kind |-> "ok", value |-> result])])
  /\ view' = snapshot(messages', isLoading', error')
  /\ UNCHANGED <<input, api>>

\* response.json() rejects while reading the success body
BodyFails(k, err) ==
  /\ k \in 1..Len(calls)
  /\ calls[k].pc = "body"
  /\ hookCatch(k, err,
               [calls[k] EXCEPT !.outcome = Some([kind |-> "err", error |-> err])])
  /\ view' = snapshot(messages', isLoading', error')
  /\ UNCHANGED <<input, api>>

\* the timer's callback, timer.delay ms after it was armed:
\* controller.abort().  The pending fetch, or the pending read of the error
\* body, rejects with an AbortError.
TimerFires(k) ==
  /\ k \in 1..Len(calls)
  /\ calls[k].timer.state = "armed"
  /\ LET c == [calls[k] EXCEPT !.aborted = TRUE, !.timer.state = "fired"] IN
       IF calls[k].pc = "fetch"
         THEN apiThrow(k, AbortError, c)
         ELSE apiThrow(k, errorFromBody(jsonCatch(c.status), c.status), c)
  /\ view' = snapshot(messages', isLoading', error')
  /\ UNCHANGED <<input, api>>

\* what the backend and the network do to the requests in flight
Network(statuses, errBodies, payloads, bodyErrors) ==
  \/ \E k \in 1..MaxCalls : RespondOk(k)
  \/ \E k \in 1..MaxCalls, s \in statuses : RespondError(k, s)
  \/ \E k \in 1..MaxCalls : NetworkFail(k)
  \/ \E k \in 1..MaxCalls : ErrBodyFails(k)
  \/ \E k \in 1..MaxCalls, body \in errBodies : ErrBodyParsed(k, body)
  \/ \E k \in 1..MaxCalls, result \in payloads : BodyParsed(k, result)
  \/ \E k \in 1..MaxCalls, err \in bodyErrors : BodyFails(k, err)
  \/ \E k \in 1..MaxCalls : TimerFires(k)

-----------------------------------------------------------------------------
(* The hook called directly *)

CallSendMessage(content) ==
  /\ sendMessage(content)
  /\ UNCHANGED <<view, input, api>>

CallClearChat ==
  /\ clearChat
  /\ UNCHANGED <<view, input, api>>

\* React renders the hook again: new closures see the current state
Render ==
  /\ view # snapshot(messages, isLoading, error)
  /\ view' = snapshot(messages, isLoading, error)
  /\ UNCHANGED <<messages, isLoading, error, calls, nextId, input, api>>

Next ==
  \/ \E content \in CallTexts : CallSendMessage(content)
  \/ CallClearChat
  \/ Render
  \/ Network(ErrStatuses, DirectErrBodies, DirectPayloads, {JsonSyntaxError})

Spec == Init /\ [][Next]_vars

-----------------------------------------------------------------------------
(* The hook driven by the components.  React renders a handler's state     *)
(* updates before it delivers the next event.                              *)

\* textarea onChange; the textarea is disabled while isLoading
TypeInput(text) ==
  /\ ~view.isLoading
  /\ input # text
  /\ input' = text
  /\ UNCHANGED <<messages, isLoading, error, view, calls, nextId, api>>

\* a handleSubmit that does not test `disabled`
handleSubmit_NoDisabledTest ==
  IF trim(input) = <<>>
    THEN UNCHANGED vars
    ELSE /\ sendMessage(Str(input))
         /\ input' = <<>>
         /\ UNCHANGED api
         /\ view' = snapshot(messages', isLoading', error')

\* a handleSubmit that tests the input without trimming it
handleSubmit_NoTrim ==
  IF input = <<>> \/ view.isLoading
    THEN UNCHANGED vars
    ELSE /\ sendMessage(Str(input))
         /\ input' = <<>>
         /\ UNCHANGED api
         /\ view' = snapshot(messages', isLoading', error')

\* ChatInput.handleSubmit (form submit, or Enter through handleKeyDown)
handleSubmit ==
  IF trim(input) = <<>> \/ view.isLoading
    THEN UNCHANGED vars
    ELSE /\ sendMessage(Str(input))
         /\ input' = <<>>
         /\ UNCHANGED api
         /\ view' = snapshot(messages', isLoading', error')

\* ChatWelcome is rendered while messages.length === 0
PromptClick(i) ==
  /\ view.messages = <<>>
  /\ sendMessage(examplePrompts[i].text)
  /\ view' = snapshot(messages', isLoading', error')
  /\ UNCHANGED <<input, api>>

\* a New Chat button that is never disabled
NewChatClick_NeverDisabled ==
  /\ Len(view.messages) > 0
  /\ clearChat
  /\ view' = snapshot(messages', isLoading', error')
  /\ UNCHANGED <<input, api>>

\* a New Chat button with disabled={!isLoading}
NewChatClick_DisabledWhenIdle ==
  /\ Len(view.messages) > 0
  /\ view.isLoading
  /\ clearChat
  /\ view' = snapshot(messages', isLoading', error')
  /\ UNCHANGED <<input, api>>

\* the New Chat button: rendered while messages.length > 0, disabled={isLoading}
NewChatClick ==
  /\ Len(view.messages) > 0
  /\ ~view.isLoading
  /\ clearChat
  /\ view' = snapshot(messages', isLoading', error')
  /\ UNCHANGED <<input, api>>

NextUI ==
  \/ \E text \in InputTexts : TypeInput(text)
  \/ handleSubmit
  \/ \E i \in 1..MaxPrompt : PromptClick(i)
  \/ NewChatClick
  \/ Network(ErrStatuses, ErrBodies, Payloads, {JsonSyntaxError, FetchFailed})

SpecUI == Init /\ [][NextUI]_vars

-----------------------------------------------------------------------------
(* The transport client's other operations, called directly.  One          *)
(* invocation is followed at a time; a new one may start when the          *)
(* previous one has settled.                                               *)

hookVars == <<messages, isLoading, error, view, calls, nextId, input>>

ApiOps == {"ingest", "clearCache", "healthCheck"}
ApiStatuses == {OkStatus} \cup ErrStatuses

\* bodies of /ingest and /health
ApiPayloads ==
  { [t |-> "object", results |-> <<>>],
    [t |-> "object", status |-> "healthy"] }

\* response.ok
ok(status) == status \in 200..299

\* ingest, clearCache or healthCheck up to its await of fetch
ApiCall(op) ==
  /\ api.pc \in {"idle", "done"}
  /\ api' = [op |-> op, pc |-> "fetch", status |-> 0, outcome |-> None]
  /\ UNCHANGED hookVars

\* an operation whose status test is missing, as in clearCache
afterFetch_NoStatusTest(op, status) ==
  IF op = "clearCache"
    THEN [op |-> op, pc |-> "done", status |-> status,
          outcome |-> Some([kind |-> "ok", value |-> [t |-> "undefined"]])]
    ELSE [op |-> op, pc |-> "body", status |-> status, outcome |-> None]

\* what each operation does with the response fetch resolved with
afterFetch(op, status) ==
  IF op = "clearCache"
    THEN [op |-> op, pc |-> "done", status |-> status,
          outcome |-> Some([kind |-> "ok", value |-> [t |-> "undefined"]])]
    ELSE IF ~ok(status)
      THEN [op |-> op, pc |-> "done", status |-> status,
            outcome |-> Some([kind |-> "err", error |->
              MkError("Error", "Error",
                      (IF op = "ingest" THEN "Ingest error: "
                                        ELSE "Health check failed: ")
                      \o ToString(status))])]
      ELSE [op |-> op, pc |-> "body", status |-> status, outcome |-> None]

\* fetch resolves with status s
ApiRespond(s) ==
  /\ api.pc = "fetch"
  /\ api' = afterFetch(api.op, s)
  /\ UNCHANGED hookVars

\* fetch rejects: nothing catches it
ApiNetworkFail ==
  /\ api.pc = "fetch"
  /\ api' = [api EXCEPT !.pc = "done",
                        !.outcome = Some([kind |-> "err", error |-> FetchFailed])]
  /\ UNCHANGED hookVars

\* `return response.json()`: the body arrives and parses
ApiBodyParsed(value) ==
  /\ api.pc = "body"
  /\ api' = [api EXCEPT !.pc = "done",
                        !.outcome = Some([kind |-> "ok", value |-> value])]
  /\ UNCHANGED hookVars

\* response.json() rejects
ApiBodyFails(err) ==
  /\ api.pc = "body"
  /\ api' = [api EXCEPT !.pc = "done",
                        !.outcome = Some([kind |-> "err", error |-> err])]
  /\ UNCHANGED hookVars

\* chatAPI.sendMessage has one caller, useChat.sendMessage
ApiSendMessage(content) ==
  /\ Len(calls) < MaxApiSends
  /\ CallSendMessage(content)

NextApi ==
  \/ \E content \in CallTexts : ApiSendMessage(content)
  \/ Render
  \/ Network(ErrStatuses, DirectErrBodies, DirectPayloads, {JsonSyntaxError})
  \/ \E op \in ApiOps : ApiCall(op)
  \/ \E s \in ApiStatuses : ApiRespond(s)
  \/ ApiNetworkFail
  \/ \E value \in ApiPayloads : ApiBodyParsed(value)
  \/ ApiBodyFails(JsonSyntaxError)

SpecApi == Init /\ [][NextApi]_vars

-----------------------------------------------------------------------------
(* Scheduling: a timer that setTimeout armed and clearTimeout has not      *)
(* cleared runs its callback.  What the backend and the network do, and    *)
(* when, is theirs to choose.                                              *)

SpecUIFair == SpecUI /\ \A k \in 1..MaxCalls : WF_vars(TimerFires(k))

-----------------------------------------------------------------------------
(* Properties *)

Settles(k) == k \in 1..Len(calls) /\ calls[k].pc # "done" /\ calls'[k].pc = "done"
Issued(k) == k \in 1..Len(calls') /\ k > Len(calls)
Last(seq) == seq[Len(seq)]
Ids(msgs) == {msgs[i].id : i \in 1..Len(msgs)}

\* the positions of the log that hold call k's user message
UserEntries(k, msgs) ==
  {i \in 1..Len(msgs) : /\ msgs[i].id = calls[k].userId
                        /\ msgs[i].role = "user"
                        /\ msgs[i].content = calls[k].content}

\* the step that issues call k appends its user message, and nothing else
C1_AppendOnIssue ==
  \A k \in 1..Len(calls') :
    Issued(k) =>
      /\ Len(messages') = Len(messages) + 1
      /\ SubSeq(messages', 1, Len(messages)) = messages
      /\ Last(messages').role = "user"
      /\ Last(messages').content = calls'[k].request.message
      /\ Last(messages').content = calls'[k].content
      /\ Last(messages').id = calls'[k].userId
      /\ calls'[k].pc = "fetch"

\* the user message of call k leaves the log only when the log is emptied
C1_StaysInLog ==
  \A k \in 1..Len(calls) :
    Cardinality(UserEntries(k, messages)) = 1 =>
      \/ Cardinality(UserEntries(k, messages')) = 1
      \/ messages' = <<>>

(* C1: the step of sendMessage(text) that issues the request appends       *)
(* exactly one message, with role 'user' and content text, to the log; the *)
(* request is in flight only from that step on, and while it is in flight  *)
(* and after it has settled the message stays in the log, exactly once,    *)
(* until a clearChat empties the log.                                      *)
C1_UserMessageBeforeSettle == [][C1_AppendOnIssue /\ C1_StaysInLog]_vars

C1_Witness ==
  \E k \in 1..Len(calls) :
    /\ calls[k].pc # "done"
    /\ calls[k].content # ""
    /\ messages # <<>>
    /\ Last(messages) = [id |-> calls[k].userId, role |-> "user", type |-> "text",
                         content |-> calls[k].content, sources |-> <<>>, cached |-> <<>>]

\* what a step that settles call k with a payload object does to the log
C2_Step ==
  \A k \in 1..Len(calls) :
    ( /\ Settles(k)
      /\ calls'[k].outcome # <<>>
      /\ calls'[k].outcome[1].kind = "ok"
      /\ calls'[k].outcome[1].value.t = "object" ) =>
        LET p == calls'[k].outcome[1].value IN
        /\ Len(messages') = Len(messages) + 1
        /\ SubSeq(messages', 1, Len(messages)) = messages
        /\ Last(messages').role = "assistant"
        /\ Last(messages').content = p.response
        /\ Last(messages').sources = <<p.sources>>
        /\ Last(messages').cached = <<p.cached>>
        /\ Last(messages').id = calls'[k].replyId
        /\ error' = error

(* C2: when a request settles successfully with a payload object p, the    *)
(* settling step appends exactly one message to the log; it has role       *)
(* 'assistant', content p.response, sources p.sources and cached p.cached, *)
(* and the step sets no error.                                             *)
C2_SuccessAppendsReply == [][C2_Step]_vars

C2_Witness ==
  \E k \in 1..Len(calls) :
    /\ calls[k].pc = "done"
    /\ calls[k].outcome # <<>>
    /\ calls[k].outcome[1].kind = "ok"
    /\ calls[k].outcome[1].value.t = "object"
    /\ calls[k].outcome[1].value.cached
    /\ calls[k].outcome[1].value.sources # <<>>
    /\ messages # <<>>
    /\ Last(messages).id = calls[k].replyId
    /\ Last(messages).content = "You have 3 urgent tasks"

\* what a step that settles call k with an error does to the log
C3_Step ==
  \A k \in 1..Len(calls) :
    ( /\ Settles(k)
      /\ calls'[k].outcome # <<>>
      /\ calls'[k].outcome[1].kind = "err" ) =>
        LET e == calls'[k].outcome[1].error.message IN
        /\ Len(messages') = Len(messages) + 1
        /\ SubSeq(messages', 1, Len(messages)) = messages
        /\ Last(messages').role = "assistant"
        /\ Last(messages').content = "Something went wrong: " \o e
        /\ Last(messages').id = calls'[k].replyId
        /\ error' = <<e>>

(* C3: when a request fails with error text e (timeout, non-success        *)
(* status, network drop), the settling step appends exactly one message to *)
(* the log, with role 'assistant' and content "Something went wrong: "     *)
(* followed by e, and sets the error state to e.                           *)
C3_FailureAppendsMessage == [][C3_Step]_vars

C3_Witness ==
  \E k \in 1..Len(calls) :
    /\ calls[k].pc = "done"
    /\ calls[k].outcome # <<>>
    /\ calls[k].outcome[1].kind = "err"
    /\ calls[k].outcome[1].error.message = "Failed to fetch"
    /\ messages # <<>>
    /\ Last(messages).id = calls[k].replyId
    /\ Last(messages).content = "Something went wrong: Failed to fetch"
    /\ error = <<"Failed to fetch">>

\* the history of a call issued in this step, against the log before the step
C4_Step ==
  \A k \in 1..Len(calls') :
    Issued(k) =>
      calls'[k].request.chat_history =
        [i \in 1..Len(messages) |->
           [role |-> messages[i].role, content |-> messages[i].content]]

(* C4: the chat_history sent with a submission is the {role, content}      *)
(* projection, in log order, of exactly the messages that were in the log  *)
(* immediately before the submission's user message was appended.          *)
C4_HistoryIsPriorLog == [][C4_Step]_vars

(* C5: through the UI the log alternates user, assistant, user, ...        *)
(* starting with a user message; every assistant message is the reply of   *)
(* the submission whose user message directly precedes it; the log has odd *)
(* length while a request is pending and even length while idle.           *)
C5_AlternatingLog ==
  /\ \A i \in 1..Len(messages) :
       IF i % 2 = 1
         THEN /\ messages[i].role = "user"
              /\ \E k \in 1..Len(calls) : calls[k].userId = messages[i].id
         ELSE /\ messages[i].role = "assistant"
              /\ \E k \in 1..Len(calls) :
                   /\ calls[k].pc = "done"
                   /\ calls[k].userId = messages[i - 1].id
                   /\ calls[k].replyId = messages[i].id
  /\ (isLoading \/ InFlight # {}) => Len(messages) % 2 = 1
  /\ (~isLoading /\ InFlight = {}) => Len(messages) % 2 = 0
  /\ isLoading <=> InFlight # {}

C5_Witness ==
  /\ Len(messages) = 3
  /\ isLoading
  /\ messages[2].role = "assistant"
  /\ \E k \in InFlight : calls[k].userId = messages[3].id

\* requests in flight, and what a step taken while isLoading may change
C6_AtMostOne == Cardinality(InFlight) <= 1

C6_IgnoredWhileLoading ==
  isLoading =>
    /\ Len(calls') = Len(calls)
    /\ \A i \in 1..Len(messages') :
         messages'[i].role = "user" =>
           i <= Len(messages) /\ messages[i] = messages'[i]

(* C6: through the UI at most one request is in flight at any time, and no *)
(* step taken while isLoading is true issues a request or appends a user   *)
(* message.                                                                *)
C6_SingleInFlight ==
  [][C6_AtMostOne /\ C6_AtMostOne' /\ C6_IgnoredWhileLoading]_vars

\* a submission is attempted while a request is in flight: the textarea
\* holds text that passes the trim test, only `disabled` stops handleSubmit
C6_Witness ==
  /\ isLoading
  /\ view.isLoading
  /\ trim(input) # <<>>
  /\ Cardinality(InFlight) = 1

(* C7: isLoading is true exactly while a request is in flight, also when   *)
(* sendMessage is called again while an earlier call is pending.           *)
C7_PendingIffInFlight == isLoading <=> InFlight # {}

(* C8: after a clearChat the log never contains an assistant message that  *)
(* replies to a submission made before that clearChat: a reply is in the   *)
(* log only together with the user message it answers.                     *)
C8_NoStaleReply ==
  \A k \in 1..Len(calls) :
    calls[k].replyId \in Ids(messages) => calls[k].userId \in Ids(messages)

\* the timer while fetch is pending, and the step in which it fires
C9_DeadlineArmed ==
  \A k \in 1..Len(calls) :
    calls[k].pc = "fetch" =>
      calls[k].timer = [state |-> "armed", delay |-> 30000]

C9_Step ==
  \A k \in 1..Len(calls) :
    (calls[k].pc = "fetch" /\ ~calls[k].aborted /\ calls'[k].aborted) =>
      /\ calls'[k].pc = "done"
      /\ calls'[k].timer.state = "cleared"
      /\ calls'[k].outcome # <<>>
      /\ calls'[k].outcome[1].kind = "err"
      /\ calls'[k].outcome[1].error.message = "Request timed out. Please try again."
      /\ Len(messages') = Len(messages) + 1
      /\ SubSeq(messages', 1, Len(messages)) = messages
      /\ Last(messages').role = "assistant"
      /\ Last(messages').content =
           "Something went wrong: Request timed out. Please try again."
      /\ error' = <<"Request timed out. Please try again.">>

(* C9: while the backend has not answered, the 30000 ms timer is armed;    *)
(* when it fires the call is aborted and fails with "Request timed out.    *)
(* Please try again.", the timer is released, and the hook appends the     *)
(* assistant message "Something went wrong: Request timed out. Please try  *)
(* again." and sets the error state to "Request timed out. Please try      *)
(* again.".                                                                *)
C9_TimeoutReported == [][C9_DeadlineArmed /\ C9_DeadlineArmed' /\ C9_Step]_vars

C9_Witness ==
  \E k \in 1..Len(calls) :
    /\ calls[k].pc = "done"
    /\ calls[k].aborted
    /\ calls[k].status = 0
    /\ messages # <<>>
    /\ Last(messages).id = calls[k].replyId
    /\ Last(messages).content =
         "Something went wrong: Request timed out. Please try again."
    /\ error = <<"Request timed out. Please try again.">>

\* the error text of a call that settles after a non-success status
C10_Original_Step ==
  \A k \in 1..Len(calls) :
    (calls[k].pc = "errbody" /\ Settles(k)) =>
      LET s == calls[k].status
          b == calls'[k].errBody
          text == calls'[k].outcome[1].error.message
      IN IF b # <<>> /\ b[1].t = "object" /\ b[1].detail # <<>>
           THEN text = ToStr(b[1].detail[1])
           ELSE text = "API error: " \o ToString(s)

(* C10: when the backend answers with a non-success status s, the call     *)
(* fails with an error whose text is the `detail` of the response body     *)
(* when the body parses and carries one, and is "API error: s" in every    *)
(* other case, in particular whenever parsing the body fails.              *)
C10_DetailOrApiError == [][C10_Original_Step]_vars

\* the error text by what became of the response body
C10_Amended_Step ==
  \A k \in 1..Len(calls) :
    (calls[k].pc = "errbody" /\ Settles(k)) =>
      LET s == calls[k].status
          b == calls'[k].errBody
          text == calls'[k].outcome[1].error.message
      IN /\ calls'[k].outcome[1].kind = "err"
         /\ s \in ErrStatuses
         /\ b = <<>> => text = "HTTP " \o ToString(s)
         /\ (b # <<>> /\ b[1].t = "null") =>
              text = "Cannot read properties of null (reading 'detail')"
         /\ (b # <<>> /\ b[1].t = "object") =>
              IF b[1].detail = <<>>
                THEN text = "API error: " \o ToString(s)
              ELSE IF b[1].detail[1].t = "string"
                THEN IF b[1].detail[1].s = ""
                       THEN text = "API error: " \o ToString(s)
                       ELSE text = b[1].detail[1].s
              ELSE text = "[object Object]"

(* C10, amended: with a non-success status s the error text is the         *)
(* `detail` of the parsed body, converted to a string, when the body       *)
(* parses to an object with a non-empty detail; "API error: s" when it     *)
(* parses to an object whose detail is missing or empty; "HTTP s" whenever *)
(* reading or parsing the body fails, also when the deadline aborts the    *)
(* read; and the TypeError's text when the body parses to null.            *)
C10_ErrorTextByBody == [][C10_Amended_Step]_vars

C10_Witness ==
  \E k \in 1..Len(calls) :
    /\ calls[k].pc = "done"
    /\ calls[k].status = 500
    /\ calls[k].errBody = <<>>
    /\ ~calls[k].aborted
    /\ calls[k].outcome[1].error.message = "HTTP 500"
    /\ error = <<"HTTP 500">>

(* C11: from every state clearChat yields an empty log and an absent      *)
(* error; on a session whose log is empty and whose error is absent,      *)
(* pending or not, a clearChat changes nothing, so that a second clearChat *)
(* in a row leaves the state the first one produced.                       *)
C11_ResetClears ==
  /\ ENABLED CallClearChat
  /\ ~ENABLED (CallClearChat /\ ~(messages' = <<>> /\ error' = <<>>))
  /\ (messages = <<>> /\ error = <<>>) => ~ENABLED <<CallClearChat>>_vars

\* clearChat has emptied a log that held a failure and cleared its error
C11_Witness ==
  /\ messages = <<>>
  /\ error = <<>>
  /\ ~isLoading
  /\ \E k \in 1..Len(calls) :
       /\ calls[k].pc = "done"
       /\ calls[k].outcome[1].kind = "err"
       /\ k = Len(calls)

\* messages' is messages with n messages added at the end
Extends(n) ==
  /\ Len(messages') = Len(messages) + n
  /\ SubSeq(messages', 1, Len(messages)) = messages

\* a step of sendMessage: it issues a call, advances one or settles one
C12_SendMessageStep == calls' # calls

(* C12: the log is append-only: every step of sendMessage (the submit, a   *)
(* success settlement, a failure settlement) keeps the messages already in *)
(* the log, in their order, and adds exactly one message at the end when   *)
(* it is a submit or a settlement and none otherwise; a failure settlement *)
(* keeps the user message appended for its request where it was.           *)
C12_AppendOnly ==
  [][ C12_SendMessageStep =>
        /\ IF \E k \in 1..Len(calls') : Issued(k) \/ Settles(k)
             THEN Extends(1)
             ELSE Extends(0)
        /\ \A k \in 1..Len(calls) :
             (Settles(k) /\ calls'[k].outcome[1].kind = "err") =>
               /\ Last(messages').role = "assistant"
               /\ UserEntries(k, messages) \subseteq UserEntries(k, messages')
    ]_vars

\* a failed request whose user message is still in the log, before its
\* failure message
C12_Witness ==
  \E k \in 1..Len(calls) :
    /\ calls[k].pc = "done"
    /\ calls[k].outcome[1].kind = "err"
    /\ \E i \in 1..(Len(messages) - 1) :
         /\ messages[i] = userMessage(calls[k].userId, calls[k].content)
         /\ messages[i + 1].id = calls[k].replyId
         /\ messages[i + 1].role = "assistant"

\* call c ended in the catch block: the transport call failed, or building
\* the reply from its result threw
Failed(c) ==
  /\ c.pc = "done"
  /\ IF c.outcome[1].kind = "err" THEN TRUE ELSE c.outcome[1].value.t = "null"

\* the step that settles a failed call returns normally and ends in Idle
C13_FailureSettles ==
  \A k \in 1..Len(calls) :
    (Settles(k) /\ Failed(calls'[k])) =>
      /\ calls'[k].promise = "fulfilled"
      /\ isLoading' = FALSE
      /\ view'.isLoading = FALSE

\* a submission made after a failure is processed like any other
C13_NextProcessed ==
  \A k \in 1..Len(calls') :
    (Issued(k) /\ \E j \in 1..Len(calls) : Failed(calls[j])) =>
      /\ Len(calls') = Len(calls) + 1
      /\ Extends(1)
      /\ Last(messages') = userMessage(calls'[k].userId, calls'[k].content)
      /\ calls'[k].pc = "fetch"
      /\ calls'[k].request.message = calls'[k].content
      /\ isLoading' = TRUE

\* after a failure, a submit of non-blank text is accepted
C13_NextAccepted ==
  ( /\ Len(calls) > 0
    /\ Failed(Last(calls))
    /\ InFlight = {}
    /\ Len(calls) < MaxCalls
    /\ trim(input) # <<>> )
  => ENABLED (handleSubmit /\ Len(calls') = Len(calls) + 1)

(* C13: no failure is fatal: whenever the transport call fails (timeout,   *)
(* rejected status, network failure) or building the reply throws,         *)
(* useChat.sendMessage returns normally to its caller with isLoading       *)
(* false, and a later submission is accepted and processed like any        *)
(* other: its user message is appended and exactly one request is issued.  *)
C13_NoFatalFailure ==
  [][C13_NextAccepted /\ C13_FailureSettles /\ C13_NextProcessed]_vars

\* a request in flight that was submitted after the previous one failed
C13_Witness ==
  \E k \in 2..Len(calls) :
    /\ Failed(calls[k - 1])
    /\ calls[k].pc = "fetch"
    /\ isLoading
    /\ Last(messages) = userMessage(calls[k].userId, calls[k].content)

(* C14: in the state right after any request settles successfully the      *)
(* hook's error is absent, whatever submissions and settlements came       *)
(* before.                                                                 *)
C14_SuccessClearsError ==
  [][ \A k \in 1..Len(calls) :
        (Settles(k) /\ ~Failed(calls'[k])) => error' = None ]_vars

\* the invocation of chatAPI.sendMessage made by call c has left its
\* try / catch / finally
Exited(c) == c.pc \in {"body", "done"}

(* C15: every invocation of chatAPI.sendMessage calls fetch exactly once,  *)
(* and once it has left on any path (success status, non-success status,   *)
(* network failure, deadline abort) its timer is cleared: no timer it      *)
(* armed remains and its timer callback can no longer run.                 *)
C15_OneFetchNoLeakedTimer ==
  \A k \in 1..Len(calls) :
    /\ calls[k].fetches = 1
    /\ Exited(calls[k]) =>
         /\ calls[k].timer.state = "cleared"
         /\ ~ENABLED TimerFires(k)

\* one invocation left by the deadline abort and another with a success
\* status, both with their timers cleared
C15_Witness ==
  \E j, k \in 1..Len(calls) :
    /\ calls[j].pc = "done" /\ calls[j].aborted
    /\ calls[j].timer.state = "cleared"
    /\ calls[k].pc = "body" /\ calls[k].status = OkStatus
    /\ calls[k].timer.state = "cleared"

\* the operation that settled with this record failed towards its caller
FailedTowardsCaller(r) == r.outcome # None /\ r.outcome[1].kind = "err"
CompletedNormally(r) == r.outcome # None /\ r.outcome[1].kind = "ok"

\* the network call of a settled invocation failed (fetch rejected or was
\* aborted: no status) or was answered with a non-success status
FetchFailedOrRejected(r) == r.pc = "done" /\ ~ok(r.status)

\* sendMessage fails whenever its network call fails or is rejected
C16_SendMessageFails ==
  \A k \in 1..Len(calls) :
    FetchFailedOrRejected(calls[k]) => FailedTowardsCaller(calls[k])

(* C16: for each of sendMessage, ingest, clearCache and healthCheck,       *)
(* whenever the network call fails or the backend answers with a           *)
(* non-success status, the operation fails towards its caller.             *)
C16_NeverSwallows ==
  /\ C16_SendMessageFails
  /\ FetchFailedOrRejected(api) => FailedTowardsCaller(api)

(* C16 as the code has it: sendMessage, ingest and healthCheck fail        *)
(* towards their caller whenever the network call fails or the backend     *)
(* answers with a non-success status; clearCache fails when the network    *)
(* call fails, and completes normally on every status, success or not.     *)
C16_SwallowsOnlyCacheStatus ==
  /\ C16_SendMessageFails
  /\ (FetchFailedOrRejected(api) /\ api.op # "clearCache")
       => FailedTowardsCaller(api)
  /\ (api.pc = "done" /\ api.op = "clearCache") =>
       IF api.status = 0 THEN FailedTowardsCaller(api)
                         ELSE CompletedNormally(api)

\* clearCache completed normally on a 500 while a sendMessage failed on one
C16_Witness ==
  /\ api.op = "clearCache"
  /\ api.pc = "done"
  /\ api.status = 500
  /\ CompletedNormally(api)
  /\ \E k \in 1..Len(calls) :
       /\ calls[k].pc = "done"
       /\ calls[k].status = 500
       /\ FailedTowardsCaller(calls[k])

(* C17: every submission eventually settles: whatever the backend does     *)
(* (answers, rejects, drops the connection, never answers, or sends a      *)
(* success status and never finishes the body), and with every armed timer *)
(* eventually firing, a pending request is eventually followed by a state  *)
(* where no request is in flight, isLoading is false and each call has its *)
(* reply in the log.                                                       *)
C17_EventuallySettles ==
  (InFlight # {}) ~>
    ( /\ InFlight = {}
      /\ ~isLoading
      /\ \A k \in 1..Len(calls) : calls[k].replyId # 0 )

\* while the deadline is armed the request does settle
C17_SettlesWhileArmed ==
  \A k \in 1..MaxCalls :
    (k \in InFlight /\ calls[k].timer.state = "armed") ~>
      (k \in 1..Len(calls) /\ Exited(calls[k]))

\* a step that resets the session: the log is emptied
ResetStep == messages # <<>> /\ messages' = <<>>

(* C18: through the UI a reset is never performed while a request is       *)
(* pending: New Chat cannot be clicked while isLoading is true, every      *)
(* reset happens in Idle, and no request is in flight right after it.      *)
C18_NoResetWhilePending ==
  [][ /\ isLoading => ~ENABLED NewChatClick
      /\ ResetStep =>
           /\ ~isLoading /\ InFlight = {}
           /\ ~isLoading' /\ InFlight' = {} ]_vars

\* the session right after New Chat was clicked on a finished exchange
C18_Witness ==
  /\ messages = <<>>
  /\ view.messages = <<>>
  /\ Len(calls) > 0
  /\ InFlight = {}
  /\ ~isLoading
  /\ error = None

\* the texts that are empty or made of whitespace only
BlankTexts ==
  { Str(q) : q \in UNION { [1..n -> Whitespace] : n \in 0..MaxBlank } }

(* C19: through the UI (ChatInput submit or Enter, ChatWelcome prompt      *)
(* click) no user message with empty or whitespace-only content is ever    *)
(* in the log, no request is ever issued with such a message, and a        *)
(* submit of such an input changes nothing.                                *)
C19_NoBlankSubmission ==
  /\ \A k \in 1..Len(calls) :
       /\ calls[k].request.message \notin BlankTexts
       /\ calls[k].content \notin BlankTexts
  /\ \A i \in 1..Len(messages) :
       messages[i].role = "user" => messages[i].content \notin BlankTexts
  /\ Str(input) \in BlankTexts => ~ENABLED <<handleSubmit>>_vars

\* a whitespace-only input is waiting in Idle, after a text with blanks
\* around it went out as typed
C19_Witness ==
  /\ input = <<" ">>
  /\ ~view.isLoading
  /\ \E k \in 1..Len(calls) :
       /\ calls[k].request.message = " ok "
       /\ \E i \in 1..Len(messages) : messages[i] = userMessage(calls[k].userId, " ok ")

(* C20: clearChat changes only the log and the error: whatever state it is *)
(* called in, pending or not, it leaves isLoading, the requests in flight  *)
(* and everything else as they were.                                       *)
C20_ResetFrame ==
  ~ENABLED ( /\ CallClearChat
             /\ ~ ( /\ isLoading' = isLoading
                    /\ InFlight' = InFlight
                    /\ calls' = calls
                    /\ nextId' = nextId
                    /\ view' = view
                    /\ input' = input ) )

\* clearChat was called while a request was pending: the request is still
\* in flight and isLoading still true
C20_Witness ==
  /\ messages = <<>>
  /\ error = None
  /\ isLoading
  /\ InFlight # {}
  /\ view.messages # <<>>

\* m was appended by the catch block of a call
SynthesizedFailure(m) ==
  /\ m.role = "assistant"
  /\ \E k \in 1..Len(calls) : Failed(calls[k]) /\ calls[k].replyId = m.id

(* C21: through the UI the error and the log agree: while a request is     *)
(* pending the error is absent; while Idle the error is present exactly    *)
(* when the log ends with a failure message made by the catch block, and   *)
(* that message's content is then "Something went wrong: " followed by the *)
(* error; the error banner is rendered from the same value.                *)
C21_ErrorAgreesWithLog ==
  /\ isLoading => error = None
  /\ ~isLoading =>
       /\ error # None <=> (messages # <<>> /\ SynthesizedFailure(Last(messages)))
       /\ error # None =>
            Last(messages).content = "Something went wrong: " \o error[1]
  /\ view.error = error

\* Idle after a reply and then a failure: the error is present and the log
\* ends with its failure message
C21_Witness ==
  /\ ~isLoading
  /\ error # None
  /\ Len(messages) >= 4
  /\ Last(messages) = failureMessage(Last(calls).replyId, error[1])
  /\ Failed(Last(calls))
  /\ ~Failed(calls[1])
  /\ view.error = error

====
